---- MODULE Spec2Model ----
(***************************************************************************)
(* dzcp: parallel zero-copy file copy (src/dzcp.c).                        *)
(*                                                                         *)
(* The model follows one call of perform_copy: the parent stats the        *)
(* source, creates/truncates the destination, forks num_processes          *)
(* children that each run copy_blocks, waits for them and fills in the     *)
(* RunResult.  Every child is a separate process with its own file         *)
(* descriptors; the only shared object is the destination file.            *)
(*                                                                         *)
(* File offsets are off_t (64 bit) and never approach overflow for the     *)
(* sizes explored here, so they are plain integers.                        *)
(***************************************************************************)
EXTENDS Integers, Sequences, FiniteSets, TLC

\* ------------------------------------------------------------------ bounds

MaxFileSize == 5
MaxBlockSize == 2
MaxProcesses == 2
MaxElapsed == 1

Slots == 0 .. (MaxProcesses - 1)

\* ------------------------------------------------------------- environment

Min(a, b) == IF a < b THEN a ELSE b

Max(a, b) == IF a > b THEN a ELSE b

\* The byte of the source file at offset o.  Every offset carries a different
\* non-zero byte, so a byte written to the wrong place, or a hole left in the
\* destination (which reads as 0), is visible.
SourceByte(o) == o + 1

SourceBytes(off, n) == [x \in 1 .. n |-> SourceByte(off + x - 1)]

\* A destination file that exists before the copy: longer than any source.
StaleData == [x \in 1 .. (MaxFileSize + 1) |-> 255]

NoFile == [exists |-> FALSE, data |-> << >>]

\* write(2) of `bytes` at file position pos: the file grows when the write
\* ends beyond its end, and a gap between the old end and pos reads as zeros.
WriteAt(data, pos, bytes) ==
    LET newLen == Max(Len(data), pos + Len(bytes))
    IN [x \in 1 .. newLen |->
            IF x - 1 >= pos /\ x - 1 < pos + Len(bytes) THEN bytes[x - pos]
            ELSE IF x <= Len(data) THEN data[x]
            ELSE 0]

\* open(2) on the destination: O_CREAT creates a missing file, O_TRUNC cuts
\* an existing one to length zero.
OpenFile(file, flags) ==
    IF ~file.exists THEN [exists |-> TRUE, data |-> << >>]
    ELSE IF "O_TRUNC" \in flags THEN [exists |-> TRUE, data |-> << >>]
    ELSE file

CanOpen(file, flags) == file.exists \/ "O_CREAT" \in flags

\* ------------------------------------------------------- program fragments

\* perform_copy, line 139
ParentDestFlagsNoTrunc == {"O_WRONLY", "O_CREAT"}

ParentDestFlags == {"O_WRONLY", "O_CREAT", "O_TRUNC"}

\* copy_blocks, line 77
ChildDestFlagsTrunc == {"O_WRONLY", "O_TRUNC"}

ChildDestFlags == {"O_WRONLY"}

\* copy_blocks, line 65
InitialOffsetZero(process_num, bsize) == 0

InitialOffset(process_num, bsize) == process_num * bsize

\* copy_blocks, line 87
OuterCondInclusive(off, fsize) == off <= fsize

OuterCond(off, fsize) == off < fsize

\* copy_blocks, line 98
InnerCond(tosend, off, fsize) == tosend > 0 /\ off < fsize

\* copy_blocks, line 116
NextDestOffsetSkipOthers(doff, nproc, bsize) == doff + (nproc - 1) * bsize

NextDestOffset(doff, nproc, bsize) == doff + nproc * bsize

\* copy_blocks, line 118
NextOffsetFullStride(off, nproc, bsize) == off + nproc * bsize

NextOffset(off, nproc, bsize) == off + (nproc - 1) * bsize

\* copy_blocks, line 101
Transient == {"EINTR", "EAGAIN"}

Fatal == {"EIO"}

\* perform_copy, line 165: the number of wait() calls
WaitCountOneShort(nproc) == nproc - 1

WaitCount(nproc) == nproc

\* perform_copy, line 158: the process_num handed to the i-th child
ForkArg(i) == i

\* perform_copy, lines 134 and 142: exit(1) when stat or the create fails
AfterSetupErrorCarryOn == "close"

AfterSetupError == "exit1"

\* ------------------------------------------------------------------- state

VARIABLES
    st_size,        \* length of the source file (what stat reports)
    block_size,     \* perform_copy argument
    num_processes,  \* perform_copy argument
    dest,           \* the destination file: [exists, data]
    ppc,            \* parent: position in perform_copy
    file_size,      \* parent: local file_size (line 136), inherited by children
    i,              \* parent: loop counter of the fork and wait loops
    result,         \* parent: *result
    proc,           \* children, by order of creation
    copied,         \* history: copied[k][o] = times child k transferred source byte o
    truncs          \* history: number of create/truncate opens of the destination

\* main and find_optimal_settings.  num_processes, block_size, shift_value and
\* num_cpus are locals of the same name in both functions; dest, i and truncs
\* above serve perform_copy wherever it is called from.
VARIABLES
    mpc,            \* main: position
    args,           \* main: the options of argv that getopt has not returned yet
    euid_root,      \* main: geteuid() = 0
    paths_given,    \* main: argv holds source and destination after the options
    num_cpus,       \* get_nprocs()
    shift_value,    \* main, find_optimal_settings: local shift_value
    optimize        \* main: local optimize

mvars == << mpc, args, euid_root, paths_given, num_cpus, shift_value, optimize >>

VARIABLES
    bpc,                \* find_optimal_settings: position
    max_runs,           \* the capacity of results (MAX_RUNS)
    timing,             \* how long the runs take (see Elapsed)
    ties,               \* how qsort orders runs of equal elapsed_time
    processes_per_cpu,  \* find_optimal_settings: outer loop counter
    fi,                 \* find_optimal_settings: local i
    run_index,          \* find_optimal_settings: local run_index
    results,            \* find_optimal_settings: the slots of results written so far
    running,            \* perform_copy: children that have not terminated
    zombies,            \* perform_copy: children terminated and not yet waited for
    warnings,           \* history: "Exceeded maximum runs." messages
    flushes,            \* history: drop_caches calls
    fastest,            \* history: indices of results printed as fastest
    slowest,            \* history: indices of results printed as slowest
    collected           \* history: results as handed to qsort

bvars == << bpc, max_runs, timing, ties, processes_per_cpu, fi, run_index,
            results, running, zombies, warnings, flushes, fastest, slowest,
            collected >>

cvars == << st_size, block_size, num_processes, dest, ppc, file_size, i, result,
            proc, copied, truncs >>

vars == << cvars, mvars, bvars >>

Offsets == 0 .. (MaxFileSize - 1)

\* no sendfile call has returned yet
NoRet == [bytes_sent |-> 0, errno |-> "none"]

Unborn == [pc |-> "unborn", process_num |-> 0, offset |-> 0, dest_offset |-> 0,
           to_send |-> 0, pos |-> 0, ret |-> NoRet, status |-> -1,
           cause |-> "none", ranges |-> << >>, reaped |-> FALSE]

NoResult == [num_processes |-> 0, block_size |-> 0, elapsed_time |-> -1]

\* main is not part of this run
MainIdle ==
    /\ mpc = "idle"
    /\ args = << >>
    /\ euid_root = FALSE
    /\ paths_given = TRUE
    /\ num_cpus = 1
    /\ shift_value = 0
    /\ optimize = 0

\* find_optimal_settings is not part of this run
BenchIdle ==
    /\ bpc = "idle"
    /\ max_runs = 0
    /\ timing = "none"
    /\ ties = "none"
    /\ processes_per_cpu = 0
    /\ fi = 0
    /\ run_index = 0
    /\ results = << >>
    /\ running = 0
    /\ zombies = 0
    /\ warnings = 0
    /\ flushes = 0
    /\ fastest = << >>
    /\ slowest = << >>
    /\ collected = << >>

Init ==
    /\ st_size \in 0 .. MaxFileSize
    /\ block_size \in 1 .. MaxBlockSize
    /\ num_processes \in 1 .. MaxProcesses
    /\ dest \in {NoFile, [exists |-> TRUE, data |-> StaleData]}
    /\ ppc = "stat"
    /\ file_size = 0
    /\ i = 0
    /\ result = NoResult
    /\ proc = [k \in Slots |-> Unborn]
    /\ copied = [k \in Slots |-> [o \in Offsets |-> 0]]
    /\ truncs = 0
    /\ MainIdle
    /\ BenchIdle

\* ------------------------------------------------------------------ parent

\* lines 132-136
Stat ==
    /\ ppc = "stat"
    /\ \/ /\ ppc' = AfterSetupError
          /\ UNCHANGED file_size
       \/ /\ file_size' = st_size
          /\ ppc' = "open"
    /\ UNCHANGED << st_size, block_size, num_processes, dest, i, result, proc,
                    copied, truncs >>
    /\ UNCHANGED << mvars, bvars >>

\* lines 139-143
CreateDest ==
    /\ ppc = "open"
    /\ \/ /\ ppc' = AfterSetupError
          /\ UNCHANGED << dest, truncs >>
       \/ /\ CanOpen(dest, ParentDestFlags)
          /\ dest' = OpenFile(dest, ParentDestFlags)
          /\ truncs' = IF "O_TRUNC" \in ParentDestFlags \/ ~dest.exists
                       THEN truncs + 1 ELSE truncs
          /\ ppc' = "close"
    /\ UNCHANGED << st_size, block_size, num_processes, file_size, i, result,
                    proc, copied >>
    /\ UNCHANGED << mvars, bvars >>

\* lines 145-151: close the descriptor, take the start time, enter the loop
CloseDest ==
    /\ ppc = "close"
    /\ i' = 0
    /\ ppc' = "fork"
    /\ UNCHANGED << st_size, block_size, num_processes, dest, file_size, result,
                    proc, copied, truncs >>
    /\ UNCHANGED << mvars, bvars >>

\* lines 151-162, one iteration.  The child starts in copy_blocks with the
\* parent's file_size, its index, num_processes and block_size.
Fork ==
    /\ ppc = "fork"
    /\ i < num_processes
    /\ \/ /\ ppc' = "exit1"
          /\ UNCHANGED << i, proc >>
       \/ /\ i \in Slots
          /\ proc' = [proc EXCEPT ![i] = [Unborn EXCEPT !.pc = "start",
                                             !.process_num = ForkArg(i)]]
          /\ i' = i + 1
          /\ UNCHANGED ppc
    /\ UNCHANGED << st_size, block_size, num_processes, dest, file_size, result,
                    copied, truncs >>
    /\ UNCHANGED << mvars, bvars >>

\* line 151 (loop exit) and line 165 (loop entry)
ForkDone ==
    /\ ppc = "fork"
    /\ i >= num_processes
    /\ i' = 0
    /\ ppc' = "wait"
    /\ UNCHANGED << st_size, block_size, num_processes, dest, file_size, result,
                    proc, copied, truncs >>
    /\ UNCHANGED << mvars, bvars >>

Children == {k \in Slots : proc[k].pc # "unborn" /\ ~proc[k].reaped}

\* lines 165-167, one iteration: wait() returns when some child has
\* terminated, or at once (ECHILD) when there is no child left.
Wait ==
    /\ ppc = "wait"
    /\ i < WaitCount(num_processes)
    /\ IF Children = {}
       THEN UNCHANGED proc
       ELSE \E k \in Children :
              /\ proc[k].pc = "exited"
              /\ proc' = [proc EXCEPT ![k].reaped = TRUE]
    /\ i' = i + 1
    /\ UNCHANGED << st_size, block_size, num_processes, dest, ppc, file_size,
                    result, copied, truncs >>
    /\ UNCHANGED << mvars, bvars >>

\* lines 165 (loop exit) to 177: end time and the result
Finish ==
    /\ ppc = "wait"
    /\ i >= WaitCount(num_processes)
    /\ \E e \in 0 .. MaxElapsed :
         result' = [num_processes |-> num_processes, block_size |-> block_size,
                    elapsed_time |-> e]
    /\ ppc' = "returned"
    /\ UNCHANGED << st_size, block_size, num_processes, dest, file_size, i,
                    proc, copied, truncs >>
    /\ UNCHANGED << mvars, bvars >>

\* ---------------------------------------------------------------- children

\* exit(code) in child k: the other processes are not touched.
ExitChildKillAll(pr, k, code, why) ==
    [j \in Slots |->
        IF j = k \/ (code # 0 /\ pr[j].pc \notin {"unborn", "exited"})
        THEN [pr[j] EXCEPT !.pc = "exited", !.status = code, !.cause = why]
        ELSE pr[j]]

\* the same, but the process never leaves (it neither exits nor goes on)
ExitChildHang(pr, k, code, why) ==
    [pr EXCEPT ![k].status = code, ![k].cause = why]

ExitChild(pr, k, code, why) ==
    [pr EXCEPT ![k].pc = "exited", ![k].status = code, ![k].cause = why]

\* lines 65-75
OpenSource(k) ==
    /\ proc[k].pc = "start"
    /\ LET off == InitialOffset(proc[k].process_num, block_size)
           p == [proc EXCEPT ![k].offset = off, ![k].dest_offset = off]
       IN \/ proc' = ExitChild(p, k, 1, "open_source")
          \/ proc' = [p EXCEPT ![k].pc = "open_dest"]
    /\ UNCHANGED << st_size, block_size, num_processes, dest, ppc, file_size, i,
                    result, copied, truncs >>
    /\ UNCHANGED << mvars, bvars >>

\* lines 77-82
OpenDest(k) ==
    /\ proc[k].pc = "open_dest"
    /\ \/ /\ proc' = ExitChild(proc, k, 1, "open_dest")
          /\ UNCHANGED << dest, truncs >>
       \/ /\ CanOpen(dest, ChildDestFlags)
          /\ dest' = OpenFile(dest, ChildDestFlags)
          /\ truncs' = IF "O_TRUNC" \in ChildDestFlags \/ ~dest.exists
                       THEN truncs + 1 ELSE truncs
          /\ proc' = [proc EXCEPT ![k].pc = "outer"]
    /\ UNCHANGED << st_size, block_size, num_processes, ppc, file_size, i,
                    result, copied >>
    /\ UNCHANGED << mvars, bvars >>

\* line 87
OuterTest(k) ==
    /\ proc[k].pc = "outer"
    /\ proc' = [proc EXCEPT ![k].pc =
                   IF OuterCond(proc[k].offset, file_size) THEN "lseek"
                   ELSE "close"]
    /\ UNCHANGED << st_size, block_size, num_processes, dest, ppc, file_size, i,
                    result, copied, truncs >>
    /\ UNCHANGED << mvars, bvars >>

\* lines 89-97: position the destination descriptor, then to_send = block_size.
\* ranges records the source offset the new range starts at and the bytes
\* transferred for it so far.
Lseek(k) ==
    /\ proc[k].pc = "lseek"
    /\ \/ proc' = ExitChild(proc, k, 1, "lseek")
       \/ proc' = [proc EXCEPT ![k].pos = proc[k].dest_offset,
                               ![k].to_send = block_size,
                               ![k].ranges = Append(@, << proc[k].offset, 0 >>),
                               ![k].pc = "inner"]
    /\ UNCHANGED << st_size, block_size, num_processes, dest, ppc, file_size, i,
                    result, copied, truncs >>
    /\ UNCHANGED << mvars, bvars >>

\* line 98
InnerTest(k) ==
    /\ proc[k].pc = "inner"
    /\ proc' = [proc EXCEPT ![k].pc =
                   IF InnerCond(proc[k].to_send, proc[k].offset, file_size)
                   THEN "sendfile" ELSE "advance"]
    /\ UNCHANGED << st_size, block_size, num_processes, dest, ppc, file_size, i,
                    result, copied, truncs >>
    /\ UNCHANGED << mvars, bvars >>

\* What sendfile can hand back: n bytes moved (errno is not read then), or
\* no byte moved and errno set.
Moved(n) == [bytes_sent |-> n, errno |-> "none"]

Failed(e) == [bytes_sent |-> -1, errno |-> e]

\* lines 100-111, what the child does with the value r sendfile returned when
\* it does not exit: `continue` on a transient error, else account for the
\* bytes.  sendfile itself has advanced offset and the descriptor's position.
AfterSendfileNoContinue(p, r) ==
    [p EXCEPT !.ret = r,
              !.offset = IF r.bytes_sent > 0 THEN @ + r.bytes_sent ELSE @,
              !.pos = IF r.bytes_sent > 0 THEN @ + r.bytes_sent ELSE @,
              !.to_send = @ - r.bytes_sent,
              !.ranges[Len(p.ranges)][2] =
                  IF r.bytes_sent > 0 THEN @ + r.bytes_sent ELSE @,
              !.pc = "inner"]

AfterSendfile(p, r) ==
    IF r.bytes_sent <= 0 /\ r.errno \in Transient
    THEN [p EXCEPT !.ret = r, !.pc = "inner"]
    ELSE [p EXCEPT !.ret = r,
                   !.offset = @ + r.bytes_sent,
                   !.pos = @ + r.bytes_sent,
                   !.to_send = @ - r.bytes_sent,
                   !.ranges[Len(p.ranges)][2] = @ + r.bytes_sent,
                   !.pc = "inner"]

\* line 99: sendfile(dest_fd, source_fd, &offset, to_send) moves between 1 and
\* to_send bytes, never past the end of the source, from source offset
\* `offset` to the descriptor's position in the destination, and advances
\* both; or it moves nothing and fails.  (At the end of the source it moves
\* nothing and leaves errno as an earlier call set it, so the child takes
\* either error branch there as well.)
Sendfile(k) ==
    /\ proc[k].pc = "sendfile"
    /\ \/ \E n \in 1 .. Min(proc[k].to_send, st_size - proc[k].offset) :
            /\ dest' = [dest EXCEPT !.data =
                           WriteAt(@, proc[k].pos, SourceBytes(proc[k].offset, n))]
            /\ proc' = [proc EXCEPT ![k] = AfterSendfile(proc[k], Moved(n))]
            /\ copied' = [copied EXCEPT ![k] =
                             [o \in Offsets |->
                                 IF o >= proc[k].offset /\ o < proc[k].offset + n
                                 THEN @[o] + 1 ELSE @[o]]]
       \/ \E e \in Transient :
            /\ proc' = [proc EXCEPT ![k] = AfterSendfile(proc[k], Failed(e))]
            /\ UNCHANGED << dest, copied >>
       \/ \E e \in Fatal :
            /\ proc' = ExitChild([proc EXCEPT ![k].ret = Failed(e)], k, 1,
                                 "sendfile")
            /\ UNCHANGED << dest, copied >>
    /\ UNCHANGED << st_size, block_size, num_processes, ppc, file_size, i,
                    result, truncs >>
    /\ UNCHANGED << mvars, bvars >>

\* lines 116-118
Advance(k) ==
    /\ proc[k].pc = "advance"
    /\ proc' = [proc EXCEPT
                   ![k].dest_offset = NextDestOffset(@, num_processes, block_size),
                   ![k].offset = NextOffset(@, num_processes, block_size),
                   ![k].pc = "outer"]
    /\ UNCHANGED << st_size, block_size, num_processes, dest, ppc, file_size, i,
                    result, copied, truncs >>
    /\ UNCHANGED << mvars, bvars >>

\* lines 122-123 and 160: close both descriptors, exit(0)
CloseAndExit(k) ==
    /\ proc[k].pc = "close"
    /\ proc' = ExitChild(proc, k, 0, "none")
    /\ UNCHANGED << st_size, block_size, num_processes, dest, ppc, file_size, i,
                    result, copied, truncs >>
    /\ UNCHANGED << mvars, bvars >>

\* ----------------------------------------------------------- specification

Next ==
    \/ Stat
    \/ CreateDest
    \/ CloseDest
    \/ Fork
    \/ ForkDone
    \/ Wait
    \/ Finish
    \/ \E k \in Slots : OpenSource(k)
    \/ \E k \in Slots : OpenDest(k)
    \/ \E k \in Slots : OuterTest(k)
    \/ \E k \in Slots : Lseek(k)
    \/ \E k \in Slots : InnerTest(k)
    \/ \E k \in Slots : Sendfile(k)
    \/ \E k \in Slots : Advance(k)
    \/ \E k \in Slots : CloseAndExit(k)

Spec == Init /\ [][Next]_vars

\* Scheduling: the parent and every child are separate processes of the
\* operating system; each that can take a step eventually takes one.  Nothing
\* is assumed about what sendfile returns.
ParentStep == Stat \/ CreateDest \/ CloseDest \/ Fork \/ ForkDone \/ Wait \/ Finish

ChildStep(k) ==
    \/ OpenSource(k)
    \/ OpenDest(k)
    \/ OuterTest(k)
    \/ Lseek(k)
    \/ InnerTest(k)
    \/ Sendfile(k)
    \/ Advance(k)
    \/ CloseAndExit(k)

FairSpec ==
    /\ Init
    /\ [][Next]_vars
    /\ WF_vars(ParentStep)
    /\ \A k \in Slots : WF_vars(ChildStep(k))

TypeOK ==
    /\ st_size \in 0 .. MaxFileSize
    /\ ppc \in {"stat", "open", "close", "fork", "wait", "returned", "exit1"}
    /\ \A k \in Slots : proc[k].status \in {-1, 0, 1}

\* -------------------------------------------------------------------- main

MaxP == 2
MaxCpus == 2

\* an option argument as typed: a decimal number, or text that is no number
Num(v) == [digits |-> TRUE, val |-> v]

Garbage == [digits |-> FALSE, val |-> 0]

\* atoi: the number the text spells, 0 when it spells none
Atoi(a) == IF a.digits THEN a.val ELSE 0

\* values of -s tried: unset-like, below the ladder, on it, above it
SValues == {0, 5, 6, 10, 22}

PArgs == {Num(v) : v \in -1 .. MaxP} \cup {Garbage}

SArgs == {Num(v) : v \in SValues} \cup {Garbage}

\* lines 265 and 293: 64 * 1024 * (1 << (shift - 6)), computed in int and
\* stored in a size_t.  For shift 6 .. 20 the product fits.  Otherwise the
\* shift count is negative or the product overflows, which C leaves
\* undefined: a build that wraps the product yields 0, one that folds the
\* expression into a single 32-bit shift by (shift + 10) yields that power
\* of two.  (Shift 21, whose wrapped product is negative, is not tried.)
BlockSizeOf(shift) ==
    LET k == shift - 6
        e == (k + 16) % 32
    IN IF k \in 0 .. 14 THEN {65536 * 2 ^ k}
       ELSE {0} \cup (IF e <= 30 THEN {2 ^ e} ELSE {})

\* line 287
DefaultProcesses(cpus) == cpus * 4

\* perform_copy and find_optimal_settings have not been entered
CopyIdle ==
    /\ st_size = 0
    /\ dest = NoFile
    /\ ppc = "idle"
    /\ file_size = 0
    /\ i = 0
    /\ result = NoResult
    /\ proc = [k \in Slots |-> Unborn]
    /\ copied = [k \in Slots |-> [o \in Offsets |-> 0]]
    /\ truncs = 0

\* lines 248-254; argv holds -p, -s, -o and an unknown option, each present
\* or not
MainInit ==
    /\ mpc = "getopt"
    /\ \E p \in {<< >>} \cup {<< [opt |-> "p", arg |-> a] >> : a \in PArgs},
          sh \in {<< >>} \cup {<< [opt |-> "s", arg |-> a] >> : a \in SArgs},
          o \in {<< >>, << [opt |-> "o", arg |-> Garbage] >>},
          bad \in {<< >>, << [opt |-> "?", arg |-> Garbage] >>} :
         args = p \o sh \o o \o bad
    /\ euid_root \in BOOLEAN
    /\ paths_given \in BOOLEAN
    /\ num_cpus \in 1 .. MaxCpus
    /\ num_processes = 0
    /\ shift_value = 0
    /\ optimize = 0
    /\ block_size = 0
    /\ CopyIdle
    /\ BenchIdle

\* lines 259-261
OptP ==
    /\ mpc = "getopt"
    /\ args # << >>
    /\ Head(args).opt = "p"
    /\ num_processes' = Atoi(Head(args).arg)
    /\ args' = Tail(args)
    /\ UNCHANGED << mpc, euid_root, paths_given, num_cpus, shift_value, optimize,
                    block_size >>
    /\ UNCHANGED << st_size, dest, ppc, file_size, i, result, proc, copied,
                    truncs, bvars >>

\* lines 262-266
OptS ==
    /\ mpc = "getopt"
    /\ args # << >>
    /\ Head(args).opt = "s"
    /\ shift_value' = Atoi(Head(args).arg)
    /\ block_size' \in BlockSizeOf(shift_value')
    /\ args' = Tail(args)
    /\ UNCHANGED << mpc, euid_root, paths_given, num_cpus, optimize,
                    num_processes >>
    /\ UNCHANGED << st_size, dest, ppc, file_size, i, result, proc, copied,
                    truncs, bvars >>

\* lines 267-273
OptO ==
    /\ mpc = "getopt"
    /\ args # << >>
    /\ Head(args).opt = "o"
    /\ optimize' = 1
    /\ mpc' = IF euid_root THEN "getopt" ELSE "exit1"
    /\ args' = Tail(args)
    /\ UNCHANGED << euid_root, paths_given, num_cpus, shift_value,
                    num_processes, block_size >>
    /\ UNCHANGED << st_size, dest, ppc, file_size, i, result, proc, copied,
                    truncs, bvars >>

\* lines 274-276
OptUnknown ==
    /\ mpc = "getopt"
    /\ args # << >>
    /\ Head(args).opt = "?"
    /\ mpc' = "return1"
    /\ args' = Tail(args)
    /\ UNCHANGED << euid_root, paths_given, num_cpus, shift_value, optimize,
                    num_processes, block_size >>
    /\ UNCHANGED << st_size, dest, ppc, file_size, i, result, proc, copied,
                    truncs, bvars >>

\* lines 257 (getopt returns -1) and 280-283
OptionsDone ==
    /\ mpc = "getopt"
    /\ args = << >>
    /\ mpc' = IF paths_given THEN "defaults" ELSE "return1"
    /\ UNCHANGED << args, euid_root, paths_given, num_cpus, shift_value,
                    optimize, num_processes, block_size >>
    /\ UNCHANGED << st_size, dest, ppc, file_size, i, result, proc, copied,
                    truncs, bvars >>

\* lines 285-294
Defaults ==
    /\ mpc = "defaults"
    /\ num_processes' = IF num_processes = 0 THEN DefaultProcesses(num_cpus)
                        ELSE num_processes
    /\ IF shift_value = 0
       THEN /\ shift_value' = 10
            /\ block_size' \in BlockSizeOf(10)
       ELSE UNCHANGED << shift_value, block_size >>
    /\ mpc' = "dispatch"
    /\ UNCHANGED << args, euid_root, paths_given, num_cpus, optimize >>
    /\ UNCHANGED << st_size, dest, ppc, file_size, i, result, proc, copied,
                    truncs, bvars >>

\* lines 296-302: the call of find_optimal_settings, or of perform_copy with
\* num_processes and block_size
Dispatch ==
    /\ mpc = "dispatch"
    /\ mpc' = IF optimize # 0 THEN "find_optimal_settings" ELSE "perform_copy"
    /\ UNCHANGED << args, euid_root, paths_given, num_cpus, shift_value,
                    optimize, num_processes, block_size >>
    /\ UNCHANGED << st_size, dest, ppc, file_size, i, result, proc, copied,
                    truncs, bvars >>

MainNext ==
    \/ OptP
    \/ OptS
    \/ OptO
    \/ OptUnknown
    \/ OptionsDone
    \/ Defaults
    \/ Dispatch

SpecMain == MainInit /\ [][MainNext]_vars

\* --------------------------------------------------- find_optimal_settings

\* line 39
MAX_RUNS == 1000

\* Capacities of results tried besides MAX_RUNS and the size of the grid: one
\* that is reached in the middle of the block-size loop and one that is
\* reached at the end of it.
CapA == 3
CapB == 10

\* line 189
block_sizes == << 64 * 1024, 128 * 1024, 256 * 1024, 512 * 1024, 1024 * 1024 >>

\* line 201: the last processes_per_cpu
MaxPerCpu == 6

\* line 213: the shift of block_sizes[0]
FirstShift == 6

\* lines 233 and 239: the number of runs in each report
ReportCount == 5

GridCells == MaxPerCpu * Len(block_sizes)

Caps == {CapA, CapB, GridCells, MAX_RUNS}

\* line 202
WorkersForSum(per_cpu, cpus) == per_cpu + cpus

WorkersFor(per_cpu, cpus) == per_cpu * cpus

\* line 204
CapReachedLate(idx, cap) == idx > cap

CapReached(idx, cap) == idx >= cap

\* line 219: unlink removes the destination
UnlinkKeepsFile(file) == file

Unlink(file) == NoFile

\* memset, line 199: a slot nothing was stored in
ZeroRun == [num_processes |-> 0, block_size |-> 0, elapsed_time |-> 0,
            shift_value |-> 0]

\* perform_copy, lines 170-173: the stores through result
WriteResultWhole(r, nproc, bsize, elapsed) ==
    [ZeroRun EXCEPT !.num_processes = nproc, !.block_size = bsize,
                    !.elapsed_time = elapsed]

WriteResult(r, nproc, bsize, elapsed) ==
    [r EXCEPT !.num_processes = nproc, !.block_size = bsize,
              !.elapsed_time = elapsed]

\* What gettimeofday measures for the run stored in slot idx, in whole
\* seconds: later runs slower, later runs faster, or a short cycle in which
\* many runs take equally long.
Timings == {"rising", "falling", "mixed"}

Elapsed(t, idx) ==
    CASE t = "rising" -> idx
      [] t = "falling" -> MAX_RUNS - idx
      [] OTHER -> (idx * 7) % 5

\* compare_run_results, line 183
compare_run_results_swapped(a, b) ==
    (IF b.elapsed_time > a.elapsed_time THEN 1 ELSE 0)
    - (IF b.elapsed_time < a.elapsed_time THEN 1 ELSE 0)

compare_run_results(a, b) ==
    (IF a.elapsed_time > b.elapsed_time THEN 1 ELSE 0)
    - (IF a.elapsed_time < b.elapsed_time THEN 1 ELSE 0)

\* qsort leaves the order of elements that compare equal unspecified: they
\* keep their order, or end up in the opposite order.
TieOrders == {"kept", "reversed"}

\* r put into a sequence that is ordered by compare_run_results
InsertRun(sorted, r, t) ==
    LET ahead == {p \in 1 .. Len(sorted) :
                     IF t = "kept" THEN compare_run_results(sorted[p], r) <= 0
                     ELSE compare_run_results(sorted[p], r) < 0}
        n == Cardinality(ahead)
    IN SubSeq(sorted, 1, n) \o << r >> \o SubSeq(sorted, n + 1, Len(sorted))

\* qsort(base, nmemb, ..., compare_run_results), line 230: the first nmemb
\* elements of base in order, the rest untouched
RECURSIVE SortedPrefix(_, _, _)
SortedPrefix(base, nmemb, t) ==
    IF nmemb = 0 THEN << >>
    ELSE InsertRun(SortedPrefix(base, nmemb - 1, t), base[nmemb], t)

Qsort(base, nmemb, t) ==
    SortedPrefix(base, nmemb, t) \o SubSeq(base, nmemb + 1, Len(base))

\* main has parsed -o as root and called find_optimal_settings (line 297)
MainCalledBench ==
    /\ mpc = "find_optimal_settings"
    /\ args = << >>
    /\ euid_root = TRUE
    /\ paths_given = TRUE
    /\ optimize = 1

\* lines 187-199.  Inside the sweep a run of perform_copy is followed through
\* the parent only: its children are counted (running, zombies), what they
\* write is left out, and the destination is followed as existing or not.
BenchInit ==
    /\ MainCalledBench
    /\ num_cpus \in 1 .. MaxCpus
    /\ max_runs \in Caps
    /\ timing \in Timings
    /\ dest \in {NoFile, [exists |-> TRUE, data |-> StaleData]}
    /\ bpc = "outer_test"
    /\ processes_per_cpu = 1
    /\ run_index = 0
    /\ results = << >>
    /\ ties = "none"
    /\ fi = 0
    /\ shift_value = 0
    /\ num_processes = 0
    /\ block_size = 0
    /\ running = 0
    /\ zombies = 0
    /\ warnings = 0
    /\ flushes = 0
    /\ fastest = << >>
    /\ slowest = << >>
    /\ collected = << >>
    /\ st_size = 0
    /\ ppc = "idle"
    /\ file_size = 0
    /\ i = 0
    /\ result = NoResult
    /\ proc = [k \in Slots |-> Unborn]
    /\ copied = [k \in Slots |-> [o \in Offsets |-> 0]]
    /\ truncs = 0

\* what no step of find_optimal_settings changes
benchFixed == << mpc, args, euid_root, paths_given, num_cpus, optimize, max_runs,
                timing, st_size, ppc, file_size, result, proc, copied >>

\* lines 201-202
BenchOuterTest ==
    /\ bpc = "outer_test"
    /\ IF processes_per_cpu <= MaxPerCpu
       THEN /\ num_processes' = WorkersFor(processes_per_cpu, num_cpus)
            /\ fi' = 0
            /\ bpc' = "inner_test"
       ELSE /\ bpc' = "qsort"
            /\ UNCHANGED << num_processes, fi >>
    /\ UNCHANGED << benchFixed, processes_per_cpu, run_index, results, running,
                    zombies, warnings, flushes, fastest, slowest, collected,
                    ties, block_size, shift_value, dest, i, truncs >>

\* line 203, and line 201's processes_per_cpu++ when the loop ends
BenchInnerTest ==
    /\ bpc = "inner_test"
    /\ IF fi < Len(block_sizes)
       THEN /\ bpc' = "cap_test"
            /\ UNCHANGED processes_per_cpu
       ELSE /\ bpc' = "outer_test"
            /\ processes_per_cpu' = processes_per_cpu + 1
    /\ UNCHANGED << benchFixed, fi, run_index, results, running, zombies,
                    warnings, flushes, fastest, slowest, collected, ties,
                    num_processes, block_size, shift_value, dest, i, truncs >>

\* lines 204-207: break leaves the block-size loop only
BenchCapTest ==
    /\ bpc = "cap_test"
    /\ IF CapReached(run_index, max_runs)
       THEN /\ warnings' = warnings + 1
            /\ processes_per_cpu' = processes_per_cpu + 1
            /\ bpc' = "outer_test"
       ELSE /\ bpc' = "drop_caches"
            /\ UNCHANGED << warnings, processes_per_cpu >>
    /\ UNCHANGED << benchFixed, fi, run_index, results, running, zombies,
                    flushes, fastest, slowest, collected, ties, num_processes,
                    block_size, shift_value, dest, i, truncs >>

\* lines 210 and 53-61
BenchDropCaches ==
    /\ bpc = "drop_caches"
    /\ \E opened \in BOOLEAN :
         IF opened
         THEN /\ flushes' = flushes + 1
              /\ bpc' = "set_shift"
         ELSE /\ bpc' = "exit1"
              /\ UNCHANGED flushes
    /\ UNCHANGED << benchFixed, processes_per_cpu, fi, run_index, results,
                    running, zombies, warnings, fastest, slowest, collected,
                    ties, num_processes, block_size, shift_value, dest, i,
                    truncs >>

\* lines 213-216: the shift tag is stored, then perform_copy is called
BenchSetShift ==
    /\ bpc = "set_shift"
    /\ shift_value' = FirstShift + fi
    /\ results' = [p \in 1 .. Max(Len(results), run_index + 1) |->
                       IF p = run_index + 1
                       THEN [(IF p <= Len(results) THEN results[p] ELSE ZeroRun)
                                EXCEPT !.shift_value = shift_value']
                       ELSE IF p <= Len(results) THEN results[p] ELSE ZeroRun]
    /\ block_size' = block_sizes[fi + 1]
    /\ bpc' = "stat"
    /\ UNCHANGED << benchFixed, processes_per_cpu, fi, run_index, running,
                    zombies, warnings, flushes, fastest, slowest, collected,
                    ties, num_processes, dest, i, truncs >>

\* perform_copy, lines 132-136
BenchStat ==
    /\ bpc = "stat"
    /\ \E ok \in BOOLEAN : bpc' = IF ok THEN "create" ELSE AfterSetupError
    /\ UNCHANGED << benchFixed, processes_per_cpu, fi, run_index, results,
                    running, zombies, warnings, flushes, fastest, slowest,
                    collected, ties, num_processes, block_size, shift_value,
                    dest, i, truncs >>

\* perform_copy, lines 139-148
BenchCreate ==
    /\ bpc = "create"
    /\ \E ok \in BOOLEAN :
         IF ok
         THEN /\ dest' = OpenFile(dest, ParentDestFlags)
              /\ truncs' = truncs + 1
              /\ i' = 0
              /\ bpc' = "fork"
         ELSE /\ bpc' = AfterSetupError
              /\ UNCHANGED << dest, truncs, i >>
    /\ UNCHANGED << benchFixed, processes_per_cpu, fi, run_index, results,
                    running, zombies, warnings, flushes, fastest, slowest,
                    collected, ties, num_processes, block_size, shift_value >>

\* perform_copy, lines 151-162
BenchFork ==
    /\ bpc = "fork"
    /\ IF i < num_processes
       THEN \E forked \in BOOLEAN :
              IF forked
              THEN /\ running' = running + 1
                   /\ i' = i + 1
                   /\ UNCHANGED bpc
              ELSE /\ bpc' = "exit1"
                   /\ UNCHANGED << running, i >>
       ELSE /\ bpc' = "wait"
            /\ i' = 0
            /\ UNCHANGED running
    /\ UNCHANGED << benchFixed, processes_per_cpu, fi, run_index, results,
                    zombies, warnings, flushes, fastest, slowest, collected,
                    ties, num_processes, block_size, shift_value, dest, truncs >>

\* perform_copy, lines 158-160: a child terminates, by exit(0) or exit(1)
BenchChildExit ==
    /\ running > 0
    /\ running' = running - 1
    /\ zombies' = zombies + 1
    /\ UNCHANGED << benchFixed, bpc, processes_per_cpu, fi, run_index, results,
                    warnings, flushes, fastest, slowest, collected, ties,
                    num_processes, block_size, shift_value, dest, i, truncs >>

\* perform_copy, lines 165-167: wait blocks until a child has terminated
BenchWait ==
    /\ bpc = "wait"
    /\ IF i < WaitCount(num_processes)
       THEN /\ zombies > 0
            /\ zombies' = zombies - 1
            /\ i' = i + 1
            /\ UNCHANGED bpc
       ELSE /\ bpc' = "finish"
            /\ UNCHANGED << zombies, i >>
    /\ UNCHANGED << benchFixed, processes_per_cpu, fi, run_index, results,
                    running, warnings, flushes, fastest, slowest, collected,
                    ties, num_processes, block_size, shift_value, dest, truncs >>

\* perform_copy, lines 169-177, result being &results[run_index]
BenchFinish ==
    /\ bpc = "finish"
    /\ results' = [results EXCEPT ![run_index + 1] =
                       WriteResult(@, num_processes, block_size,
                                   Elapsed(timing, run_index))]
    /\ bpc' = "unlink"
    /\ UNCHANGED << benchFixed, processes_per_cpu, fi, run_index, running,
                    zombies, warnings, flushes, fastest, slowest, collected,
                    ties, num_processes, block_size, shift_value, dest, i,
                    truncs >>

\* lines 219-223
BenchUnlink ==
    /\ bpc = "unlink"
    /\ \E ok \in BOOLEAN :
         IF ok
         THEN /\ dest' = Unlink(dest)
              /\ bpc' = "incr"
         ELSE /\ bpc' = "exit1"
              /\ UNCHANGED dest
    /\ UNCHANGED << benchFixed, processes_per_cpu, fi, run_index, results,
                    running, zombies, warnings, flushes, fastest, slowest,
                    collected, ties, num_processes, block_size, shift_value, i,
                    truncs >>

\* line 225, and line 203's i++
BenchIncr ==
    /\ bpc = "incr"
    /\ run_index' = run_index + 1
    /\ fi' = fi + 1
    /\ bpc' = "inner_test"
    /\ UNCHANGED << benchFixed, processes_per_cpu, results, running, zombies,
                    warnings, flushes, fastest, slowest, collected, ties,
                    num_processes, block_size, shift_value, dest, i, truncs >>

\* lines 230-233
BenchQsort ==
    /\ bpc = "qsort"
    /\ ties' \in TieOrders
    /\ collected' = results
    /\ results' = Qsort(results, run_index, ties')
    /\ fi' = 0
    /\ bpc' = "fastest"
    /\ UNCHANGED << benchFixed, processes_per_cpu, run_index, running, zombies,
                    warnings, flushes, fastest, slowest, num_processes,
                    block_size, shift_value, dest, i, truncs >>

\* lines 233-239: fastest records the index i of each results[i] printed
BenchFastest ==
    /\ bpc = "fastest"
    /\ IF fi < ReportCount /\ fi < run_index
       THEN /\ fastest' = Append(fastest, fi)
            /\ fi' = fi + 1
            /\ UNCHANGED bpc
       ELSE /\ fi' = run_index - 1
            /\ bpc' = "slowest"
            /\ UNCHANGED fastest
    /\ UNCHANGED << benchFixed, processes_per_cpu, run_index, results, running,
                    zombies, warnings, flushes, slowest, collected, ties,
                    num_processes, block_size, shift_value, dest, i, truncs >>

\* lines 239-245
BenchSlowest ==
    /\ bpc = "slowest"
    /\ IF fi >= run_index - ReportCount /\ fi >= 0
       THEN /\ slowest' = Append(slowest, fi)
            /\ fi' = fi - 1
            /\ UNCHANGED bpc
       ELSE /\ bpc' = "returned"
            /\ UNCHANGED << slowest, fi >>
    /\ UNCHANGED << benchFixed, processes_per_cpu, run_index, results, running,
                    zombies, warnings, flushes, fastest, collected, ties,
                    num_processes, block_size, shift_value, dest, i, truncs >>

BenchNext ==
    \/ BenchOuterTest
    \/ BenchInnerTest
    \/ BenchCapTest
    \/ BenchDropCaches
    \/ BenchSetShift
    \/ BenchStat
    \/ BenchCreate
    \/ BenchFork
    \/ BenchChildExit
    \/ BenchWait
    \/ BenchFinish
    \/ BenchUnlink
    \/ BenchIncr
    \/ BenchQsort
    \/ BenchFastest
    \/ BenchSlowest

SpecBench == BenchInit /\ [][BenchNext]_vars

\* ------------------------------------------------------------ vocabulary

Spawned == {k \in Slots : proc[k].pc # "unborn"}

Succeeded(k) == proc[k].pc = "exited" /\ proc[k].status = 0

\* every one of the num_processes children ran copy_blocks to its end
AllSucceeded ==
    \A k \in Slots : k < num_processes => Succeeded(k)

AllExited ==
    \A k \in Slots : k < num_processes => proc[k].pc = "exited"

RECURSIVE Copies(_, _)
\* how often source byte o was transferred by the children in S
Copies(S, o) ==
    IF S = {} THEN 0
    ELSE LET k == CHOOSE x \in S : TRUE
         IN copied[k][o] + Copies(S \ {k}, o)

\* the index of the worker that owns the block holding offset o
Owner(o) == (o \div block_size) % num_processes

\* the child is past the transfer loop of its latest range
RangeComplete(p) ==
    \/ p.pc \in {"advance", "outer", "close"}
    \/ p.pc = "exited" /\ p.status = 0

\* ------------------------------------------------------------------ claims

\* C1 Coverage: no source byte is ever transferred twice, by one child or by
\* two, no byte outside [0, file_size) is transferred, and once every child
\* has run copy_blocks to its end every byte of [0, file_size) has been
\* transferred exactly once.
C1_Coverage ==
    /\ \A o \in Offsets : Copies(Slots, o) <= 1
    /\ \A o \in Offsets : o >= st_size => Copies(Slots, o) = 0
    /\ AllSucceeded => \A o \in Offsets : o < st_size => Copies(Slots, o) = 1

C1_Witness ==
    /\ AllSucceeded
    /\ num_processes >= 2
    /\ st_size > num_processes * block_size
    /\ st_size % block_size # 0

\* C2 Content correctness: once every child has completed without a fatal
\* error (in particular when perform_copy has joined them and returned), the
\* destination has the length and the bytes of the source.
C2_ContentCorrect ==
    AllSucceeded => dest.exists /\ dest.data = SourceBytes(0, st_size)

\* a completed run of several children in which the transfer of a two-byte
\* range took more than one call (its last call moved a single byte)
C2_Witness ==
    /\ ppc = "returned"
    /\ AllSucceeded
    /\ num_processes >= 2
    /\ st_size > block_size
    /\ \E k \in Slots :
         /\ Len(proc[k].ranges) > 0
         /\ proc[k].ranges[Len(proc[k].ranges)][2] = 2
         /\ proc[k].ret.bytes_sent = 1

\* C3 Planner sequence: the j-th range (j from 0) a child with index n
\* processes starts at (n + j * num_processes) * block_size, which is below
\* file_size; the bytes moved for it never exceed, and once its transfer loop
\* is left equal, min(block_size, file_size - start); the child stops at the
\* first such start that is >= file_size; and a byte is only ever moved by the
\* child whose index is its block number modulo num_processes.
C3_PlannerSequence ==
    /\ \A k \in Slots :
         LET p == proc[k]
             start(j) == (p.process_num + (j - 1) * num_processes) * block_size
         IN /\ \A j \in 1 .. Len(p.ranges) :
                 /\ p.ranges[j][1] = start(j)
                 /\ start(j) < file_size
                 /\ p.ranges[j][2] <= Min(block_size, file_size - start(j))
                 /\ (j < Len(p.ranges) \/ RangeComplete(p))
                        => p.ranges[j][2] = Min(block_size, file_size - start(j))
            /\ (p.pc = "close" \/ Succeeded(k))
                   => start(Len(p.ranges) + 1) >= file_size
    /\ \A k \in Slots : \A o \in Offsets :
         copied[k][o] > 0 => Owner(o) = proc[k].process_num

\* the example of the specification scaled to one-byte blocks: 2 workers, a
\* 3-block file; worker 0 gets blocks 0 and 2, worker 1 gets block 1
C3_Witness ==
    /\ num_processes = 2
    /\ block_size = 1
    /\ st_size = 3
    /\ AllSucceeded
    /\ proc[0].ranges = << << 0, 1 >>, << 2, 1 >> >>
    /\ proc[1].ranges = << << 1, 1 >> >>

\* C4 Failure isolation: a step in which a child ends on a fatal sendfile
\* error gives that child status 1 and changes nothing else: not another
\* child, not the parent's position, counter or result, not the destination;
\* and whenever perform_copy has returned, failed children or not, it has
\* reaped all num_processes children and the result carries num_processes,
\* block_size and an elapsed time.
C4_FailureIsolation ==
    /\ [][\A k \in Slots :
            (proc[k].pc = "sendfile" /\ proc'[k].pc = "exited")
                => /\ proc'[k].status = 1
                   /\ proc'[k].cause = "sendfile"
                   /\ \A j \in Slots \ {k} : proc'[j] = proc[j]
                   /\ UNCHANGED << ppc, i, result, dest >>]_vars
    /\ [](ppc = "returned"
            => /\ \A k \in Slots : k < num_processes => proc[k].reaped
               /\ result.num_processes = num_processes
               /\ result.block_size = block_size
               /\ result.elapsed_time \in 0 .. MaxElapsed)

\* perform_copy returned although one child failed in sendfile, and a sibling
\* copied its ranges to the end
C4_Witness ==
    /\ ppc = "returned"
    /\ \E k \in Slots : proc[k].status = 1 /\ proc[k].cause = "sendfile"
    /\ \E k \in Slots : Succeeded(k) /\ Len(proc[k].ranges) > 0

\* C5 Partial-failure content: for every child that completed without a fatal
\* error, whatever became of the others, every offset of the source in a block
\* that child owns holds the source's byte in the destination; so an offset
\* where the destination differs lies in a block of a child that failed.
C5_PartialFailureContent ==
    \A k \in Slots :
        Succeeded(k) =>
            \A o \in Offsets :
                (o < st_size /\ Owner(o) = proc[k].process_num)
                    => /\ o < Len(dest.data)
                       /\ dest.data[o + 1] = SourceByte(o)

\* all children are gone, one failed, one succeeded with work done, and the
\* destination is not the source
C5_Witness ==
    /\ AllExited
    /\ \E k \in Slots : proc[k].status = 1 /\ proc[k].cause = "sendfile"
    /\ \E k \in Slots : Succeeded(k) /\ Len(proc[k].ranges) > 0
    /\ dest.data # SourceBytes(0, st_size)

\* C6 Transient retry: a sendfile call that fails with EINTR or EAGAIN leaves
\* the child running with offset, dest_offset, the descriptor position and
\* to_send as they were, back at the test of the transfer loop; and whenever
\* the latest call failed that way the test passes, so the same call is made
\* again, however many retries went before (the child keeps no count).
C6_TransientRetry ==
    /\ [][\A k \in Slots :
            (/\ proc[k].pc = "sendfile"
             /\ proc'[k].pc # "sendfile"
             /\ proc'[k].ret.bytes_sent <= 0
             /\ proc'[k].ret.errno \in Transient)
                => /\ proc'[k].pc = "inner"
                   /\ proc'[k].status = -1
                   /\ proc'[k].offset = proc[k].offset
                   /\ proc'[k].dest_offset = proc[k].dest_offset
                   /\ proc'[k].pos = proc[k].pos
                   /\ proc'[k].to_send = proc[k].to_send
                   /\ proc'[k].ranges = proc[k].ranges]_vars
    /\ [](\A k \in Slots :
            (/\ proc[k].pc \in {"inner", "sendfile"}
             /\ proc[k].ret.bytes_sent <= 0
             /\ proc[k].ret.errno \in Transient)
                => InnerCond(proc[k].to_send, proc[k].offset, file_size))

\* a child is about to repeat a call that failed with EAGAIN, midway through
\* a range
C6_Witness ==
    \E k \in Slots :
        /\ proc[k].pc = "sendfile"
        /\ proc[k].ret = Failed("EAGAIN")
        /\ proc[k].to_send < block_size

\* C7 Join-all barrier: the children created so far carry the indices
\* 0 .. n-1, each once, n <= num_processes; only the parent's fork step
\* creates a process and it touches no running child; the parent is in the
\* wait loop or beyond only with all num_processes children created; and it
\* has returned only when every one of them has terminated.
C7_JoinAll ==
    /\ [](/\ \A k \in Spawned : proc[k].process_num = k
          /\ Spawned = {k \in Slots : k < Cardinality(Spawned)}
          /\ Cardinality(Spawned) <= num_processes
          /\ ppc \in {"wait", "returned"} => Cardinality(Spawned) = num_processes
          /\ ppc = "returned"
                => \A k \in Spawned : proc[k].pc = "exited" /\ proc[k].reaped)
    /\ [][Spawned' # Spawned
            => /\ ppc = "fork"
               /\ i' = i + 1
               /\ Cardinality(Spawned') = Cardinality(Spawned) + 1
               /\ \A k \in Spawned : proc'[k] = proc[k]]_vars

\* returned after joining at least two children that each had ranges to copy
C7_Witness ==
    /\ ppc = "returned"
    /\ num_processes >= 2
    /\ \A k \in Slots : k < num_processes => Len(proc[k].ranges) > 0

\* C8 Destination prepared before fan-out: the destination is created or
\* truncated at most once; while the parent has not finished its create,
\* truncate and close no child exists; and once a child exists the one
\* create/truncate has happened and the file exists.
C8_PreparedBeforeFanOut ==
    /\ truncs <= 1
    /\ ppc \in {"stat", "open", "close"} => Spawned = {}
    /\ ppc \in {"stat", "open"} => truncs = 0
    /\ Spawned # {} => truncs = 1 /\ dest.exists

\* two children are at work, one of them transferring, after the one truncate
C8_Witness ==
    /\ truncs = 1
    /\ Cardinality(Spawned) >= 2
    /\ \E k \in Slots : proc[k].pc = "sendfile" /\ Len(dest.data) > 0

\* C9 as stated: from the first spawn on, the length of the destination stays
\* what it was.
C9_LengthFixed ==
    [][Spawned # {} => Len(dest'.data) = Len(dest.data)]_vars

\* C9 amended: the parent cuts the destination to length zero before the
\* first spawn, and from the first spawn on no step shortens it and it never
\* exceeds file_size: the children lengthen it as they write.
C9_LengthNeverReduced ==
    /\ [][Spawned # {} => Len(dest'.data) >= Len(dest.data)]_vars
    /\ []((ppc = "fork" /\ Spawned = {}) => Len(dest.data) = 0)
    /\ [](Spawned # {} => Len(dest.data) <= file_size)

\* mid-copy: the destination has grown but is not yet as long as the source
C9_Witness ==
    /\ Spawned # {}
    /\ ppc \in {"fork", "wait"}
    /\ Len(dest.data) > 0
    /\ Len(dest.data) < file_size

\* C10 Empty file and surplus workers: a child whose first offset
\* process_num * block_size is >= file_size never seeks and never calls
\* sendfile, and it ends with status 0 unless one of its two open calls
\* failed; with file_size = 0 that is every child, the destination stays
\* empty, and perform_copy returns only with num_processes children created
\* and reaped and the result filled in.
C10_EmptyAndSurplus ==
    /\ \A k \in Spawned :
         (proc[k].pc # "start"
          /\ proc[k].process_num * block_size >= file_size)
            => /\ proc[k].ranges = << >>
               /\ proc[k].ret = NoRet
               /\ proc[k].pc \in {"open_dest", "outer", "close", "exited"}
               /\ proc[k].pc = "exited"
                    => \/ proc[k].status = 0
                       \/ proc[k].cause \in {"open_source", "open_dest"}
               /\ \A o \in Offsets : copied[k][o] = 0
    /\ (st_size = 0 /\ ppc \in {"close", "fork", "wait", "returned"})
            => dest.data = << >>
    /\ (st_size = 0 /\ ppc = "returned")
            => /\ Cardinality(Spawned) = num_processes
               /\ \A k \in Spawned : proc[k].reaped
               /\ result.num_processes = num_processes

\* a run on a non-empty file has returned in which a surplus child ended with
\* status 0 and the destination is complete
C10_Witness ==
    /\ ppc = "returned"
    /\ file_size > 0
    /\ \E k \in Slots :
         /\ Succeeded(k)
         /\ proc[k].process_num * block_size >= file_size
    /\ dest.data = SourceBytes(0, st_size)

\* C11 Single worker: with num_processes = 1 the first range of child 0
\* starts at offset 0, every later range starts where the one before it
\* ended (so the starts strictly ascend), no other child moves a byte, and
\* when child 0 has run to its end its ranges end at file_size.
C11_SingleWorker ==
    num_processes = 1 =>
        LET r == proc[0].ranges
        IN /\ Len(r) > 0 => r[1][1] = 0
           /\ \A j \in 1 .. (Len(r) - 1) :
                /\ r[j + 1][1] = r[j][1] + r[j][2]
                /\ r[j + 1][1] > r[j][1]
           /\ \A k \in Slots \ {0} : \A o \in Offsets : copied[k][o] = 0
           /\ Succeeded(0) =>
                /\ file_size > 0 => r[Len(r)][1] + r[Len(r)][2] = file_size
                /\ \A o \in Offsets : o < file_size => copied[0][o] = 1

\* one worker has copied a file of at least three blocks, the last one partial
C11_Witness ==
    /\ num_processes = 1
    /\ Succeeded(0)
    /\ Len(proc[0].ranges) >= 3
    /\ file_size % block_size # 0

\* C15 Setup errors abort before fan-out: a failed stat ends the parent
\* (exit 1) in a step that neither creates nor truncates the destination; a
\* failed create ends it likewise; a parent that ended before the fork loop
\* never gets a child, and a parent that ended after a failed stat never
\* touches the destination.
C15_SetupErrorsAbort ==
    /\ [][(ppc = "stat" /\ ppc' # "open")
            => ppc' = "exit1" /\ truncs' = 0 /\ dest' = dest /\ Spawned' = {}]_vars
    /\ [][(ppc = "open" /\ ppc' # "close")
            => ppc' = "exit1" /\ truncs' = truncs /\ dest' = dest
               /\ Spawned' = {}]_vars
    /\ [](ppc \in {"stat", "open", "close"} => Spawned = {})
    /\ []((ppc = "exit1" /\ Spawned = {} /\ truncs = 0) => result = NoResult)
    /\ [][(ppc = "exit1" /\ Spawned = {})
            => UNCHANGED << ppc, truncs, dest, proc >>]_vars

\* the parent ended on a failed stat of a non-empty source: nothing was
\* created and there is no child
C15_Witness ==
    /\ ppc = "exit1"
    /\ st_size > 0
    /\ file_size = 0
    /\ truncs = 0
    /\ Spawned = {}
    /\ dest = [exists |-> TRUE, data |-> StaleData]

\* C19 Cursor alignment: whenever a child is at the sendfile call, the
\* position of its destination descriptor equals its source offset, the
\* offset is below file_size, to_send is positive, and the requested interval
\* [offset, offset + to_send) lies in one block, whose number modulo
\* num_processes is the child's index.
C19_CursorAlignment ==
    \A k \in Slots :
        proc[k].pc = "sendfile" =>
            LET p == proc[k]
                first == p.offset \div block_size
                last == (p.offset + p.to_send - 1) \div block_size
            IN /\ p.pos = p.offset
               /\ p.offset < file_size
               /\ p.to_send > 0
               /\ first = last
               /\ first % num_processes = p.process_num

\* a child is at the call in its second range, after a short return, with
\* dest_offset and the source offset apart
C19_Witness ==
    \E k \in Slots :
        /\ proc[k].pc = "sendfile"
        /\ Len(proc[k].ranges) = 2
        /\ proc[k].to_send < block_size
        /\ proc[k].ret.bytes_sent > 0
        /\ proc[k].dest_offset # proc[k].offset

\* the latest sendfile call of child k failed with EINTR or EAGAIN and the
\* child is about to make, or is making, the call again
Retrying(k) ==
    /\ proc[k].pc \in {"inner", "sendfile"}
    /\ proc[k].ret.bytes_sent <= 0
    /\ proc[k].ret.errno \in Transient

\* C20 Termination under fairness: with every process scheduled fairly, in
\* every run in which no child ends up retrying transient failures for ever,
\* every child that was created terminates, the parent leaves perform_copy
\* (it returns, or exits on a setup or fork error), and a parent that reached
\* the wait loop returns.  So a parent that waits for ever waits for a child
\* that retries for ever.
C20_Termination ==
    (\A k \in Slots : []<>(~Retrying(k)))
        => /\ \A k \in Slots : [](proc[k].pc # "unborn" => <>(proc[k].pc = "exited"))
           /\ <>(ppc \in {"returned", "exit1"})
           /\ [](ppc = "wait" => <>(ppc = "returned"))

\* perform_copy has returned from a run of several children that all ended,
\* one of them after copying two ranges or more
C20_Witness ==
    /\ ppc = "returned"
    /\ AllSucceeded
    /\ num_processes >= 2
    /\ \E k \in Slots : Len(proc[k].ranges) >= 2

\* C18 Positive request parameters: whenever main calls perform_copy,
\* num_processes > 0 and block_size > 0.
C18_PositiveParameters ==
    mpc = "perform_copy" => num_processes > 0 /\ block_size > 0

\* after the two loops of the sweep (line 228 onwards)
SweepOver == bpc \in {"qsort", "fastest", "slowest", "returned"}

\* C12 Benchmark grid: a sweep that meets no error and whose capacity holds
\* the whole grid performs exactly 30 runs of perform_copy; before sorting,
\* run j (from 0) has num_cpus * (j / 5 + 1) workers and the (j mod 5)-th of
\* the block sizes 64, 128, 256, 512, 1024 KiB, that is, worker count outer
\* and block size inner; and results holds each of the 30 pairs exactly once.
C12_BenchmarkGrid ==
    (SweepOver /\ max_runs >= 30) =>
        /\ truncs = 30
        /\ flushes = 30
        /\ run_index = 30
        /\ Len(results) = 30
        /\ bpc = "qsort" =>
               \A j \in 0 .. 29 :
                   /\ results[j + 1].num_processes = num_cpus * ((j \div 5) + 1)
                   /\ results[j + 1].block_size = 1024 * 64 * 2 ^ (j % 5)
        /\ \A k \in 1 .. 6, kib \in {64, 128, 256, 512, 1024} :
               Cardinality({p \in 1 .. Len(results) :
                               /\ results[p].num_processes = num_cpus * k
                               /\ results[p].block_size = 1024 * kib}) = 1

\* a sweep with MAX_RUNS slots on two CPUs has returned, and sorting has
\* moved the last run of the grid to the front
C12_Witness ==
    /\ bpc = "returned"
    /\ max_runs = MAX_RUNS
    /\ num_cpus = 2
    /\ Len(results) = 30
    /\ results[1].num_processes = 12
    /\ results[1].block_size = 1024 * 1024

\* how often run r occurs in the sequence runs
Occurrences(runs, r) == Cardinality({p \in 1 .. Len(runs) : runs[p] = r})

\* C13 Ranking and report: once qsort has returned, results is a
\* permutation of the n runs handed to it, in order of non-decreasing
\* elapsed_time; the fastest report prints results[0], results[1], ... up to
\* min(5, n) entries, the slowest report prints results[n-1], results[n-2],
\* ... up to min(5, n) entries, and no index outside 0 .. n-1 is printed.
C13_RankingAndReport ==
    bpc \in {"fastest", "slowest", "returned"} =>
        LET n == run_index
            shown == IF n < 5 THEN n ELSE 5
        IN /\ Len(results) = n
           /\ Len(collected) = n
           /\ \A p \in 1 .. n :
                  Occurrences(results, results[p])
                      = Occurrences(collected, results[p])
           /\ \A p \in 1 .. (n - 1) :
                  results[p].elapsed_time <= results[p + 1].elapsed_time
           /\ \A p \in 1 .. Len(fastest) :
                  fastest[p] = p - 1 /\ fastest[p] \in 0 .. (n - 1)
           /\ \A p \in 1 .. Len(slowest) :
                  slowest[p] = n - p /\ slowest[p] \in 0 .. (n - 1)
           /\ Len(fastest) <= shown
           /\ Len(slowest) <= shown
           /\ bpc \in {"slowest", "returned"} => Len(fastest) = shown
           /\ bpc = "returned" => Len(slowest) = shown

\* a sweep cut short below five runs has printed both reports, each with all
\* of its runs, after qsort changed their order
C13_Witness ==
    /\ bpc = "returned"
    /\ run_index \in 1 .. 4
    /\ results # collected
    /\ Len(fastest) = run_index
    /\ Len(slowest) = run_index

\* no child of perform_copy is left, running or unreaped
NoWorkers == running = 0 /\ zombies = 0

\* C14 Benchmark iteration ordering: with j runs appended, iteration j+1
\* starts with j flushes and j creations done, no worker left and (after the
\* first iteration) no destination; it flushes, then creates the destination
\* while no worker exists, forks num_processes workers, waits for every one
\* of them, deletes the destination with no worker left, and only then
\* appends the run.  After the sweep the destination does not exist.
C14_IterationOrdering ==
    LET j == run_index
    IN /\ bpc \in {"outer_test", "inner_test", "cap_test", "drop_caches"} =>
              /\ flushes = j /\ truncs = j
              /\ NoWorkers
              /\ j > 0 => ~dest.exists
       /\ bpc \in {"set_shift", "stat", "create"} =>
              /\ flushes = j + 1 /\ truncs = j
              /\ NoWorkers
              /\ j > 0 => ~dest.exists
       /\ bpc = "fork" =>
              /\ flushes = j + 1 /\ truncs = j + 1
              /\ dest.exists
              /\ running + zombies = i
       /\ bpc = "wait" =>
              /\ flushes = j + 1 /\ truncs = j + 1
              /\ dest.exists
              /\ running + zombies + i = num_processes
       /\ bpc \in {"finish", "unlink"} =>
              /\ flushes = j + 1 /\ truncs = j + 1
              /\ dest.exists
              /\ NoWorkers
       /\ bpc = "incr" =>
              /\ flushes = j + 1 /\ truncs = j + 1
              /\ ~dest.exists
              /\ NoWorkers
       /\ SweepOver =>
              /\ flushes = j /\ truncs = j
              /\ ~dest.exists
              /\ NoWorkers

\* the sixth iteration waits for its workers: one is reaped, one has
\* terminated and is not reaped yet, and at least one is still running
C14_Witness ==
    /\ bpc = "wait"
    /\ run_index = 5
    /\ i = 1
    /\ zombies = 1
    /\ running >= 1

\* the cap of line 204 has been reached: max_runs runs are collected
CapHit == run_index >= max_runs

\* what the cap guarantees in every state: never more than max_runs runs, no
\* slot from index max_runs on written, and no failure exit once max_runs runs
\* are collected
WithinCap ==
    /\ run_index <= max_runs
    /\ Len(results) <= max_runs
    /\ flushes <= max_runs
    /\ truncs <= max_runs
    /\ CapHit => bpc # "exit1"

\* C16 as stated: within the cap, and whenever the sweep is over with
\* max_runs runs collected a warning has been emitted.  It fails for a
\* capacity equal to the size of the grid: the loops end after the last cell
\* without the test of line 204 being made again.
C16_RunCapAlwaysWarns ==
    /\ WithinCap
    /\ (SweepOver /\ CapHit) => warnings > 0

\* C16 Run cap, amended: never more than max_runs runs are collected and no
\* slot from index max_runs on is written; once max_runs runs are collected
\* no step flushes the cache, creates or deletes the destination, forks,
\* stores a result or exits with a failure; when the sweep is over, one
\* warning has been emitted for every worker count whose block-size loop
\* was cut short or skipped, which is at least one when max_runs is smaller
\* than the grid and none when the grid fits.
C16_RunCap ==
    /\ [](/\ WithinCap
          /\ SweepOver =>
                 warnings = (IF max_runs < 30 THEN 6 - (max_runs \div 5) ELSE 0))
    /\ [][CapHit =>
             /\ flushes' = flushes
             /\ truncs' = truncs
             /\ dest' = dest
             /\ running' = running
             /\ run_index' = run_index
             /\ bpc' # "exit1"
             /\ bpc \in {"fastest", "slowest", "returned"} => results' = results]_vars

\* a sweep with room for fewer runs than the grid has has returned with all
\* its slots used, after warning at least once
C16_Witness ==
    /\ bpc = "returned"
    /\ max_runs < 30
    /\ run_index = max_runs
    /\ Len(results) = max_runs
    /\ warnings > 0
    /\ Len(fastest) > 0

\* the tag and the block size of run r agree
TagMatches(r) ==
    /\ r.shift_value \in 6 .. 10
    /\ r.block_size = 65536 * 2 ^ (r.shift_value - 6)

\* C17 Shift tag consistency: every run that perform_copy has filled in,
\* whether counted by run_index yet or not and whether qsort has moved it or
\* not, has a shift_value s in 6 .. 10 and a block_size of 65536 * 2^(s-6);
\* and the step in which perform_copy stores num_processes, block_size and
\* elapsed_time leaves the slot's shift_value as line 215 set it.
C17_ShiftTag ==
    /\ [](/\ \A p \in 1 .. run_index : TagMatches(results[p])
          /\ bpc \in {"unlink", "incr"} => TagMatches(results[run_index + 1]))
    /\ [][bpc = "finish" =>
             /\ results'[run_index + 1].shift_value
                    = results[run_index + 1].shift_value
             /\ results'[run_index + 1].shift_value = shift_value
             /\ results'[run_index + 1].block_size = block_size]_vars

\* a sorted collection which qsort has reordered holds a run tagged 6 with
\* 65,536 bytes behind a run tagged 10 with 1,048,576 bytes
C17_Witness ==
    /\ bpc = "returned"
    /\ results # collected
    /\ \E p, q \in 1 .. run_index :
           /\ p < q
           /\ results[p].shift_value = 10 /\ results[p].block_size = 1048576
           /\ results[q].shift_value = 6 /\ results[q].block_size = 65536

====
